---- MODULE Spec2Model ----
(***************************************************************************)
(* Model of the J.HINTON checkout backend.  The repository holds two       *)
(* variants of the server: src/server.js ("server") and the earlier        *)
(* flat-rate variant src/unnamed/part_000 ("part_000").  A deployment runs *)
(* one of them; impl says which.                                           *)
(*                                                                         *)
(* Representation.  A JavaScript string is a sequence of one-character     *)
(* strings.  A JavaScript number is an integer counting halves, so that    *)
(* 2.5 is 5 and 99 is 198; NaN is a separate value.  A JSON value is a     *)
(* record tagged by t.                                                     *)
(***************************************************************************)
EXTENDS Integers, Sequences, FiniteSets, TLC

VARIABLES impl, env, pc, req, event, verified, createArg, retrieved, session, sent, res,
          routes, handled, fetched

vars == <<impl, env, pc, req, event, verified, createArg, retrieved, session, sent, res,
          routes, handled, fetched>>

\* Largest number of lines in a submitted cart.
MaxItems == 2

\* Largest number of GET /health calls that register a route.
MaxHealth == 2

---------------------------------------------------------------------------
(* JavaScript values *)

JsUndefined == [t |-> "undefined"]
JsString(s) == [t |-> "string", s |-> s]
\* n whole, h extra halves: JsNumber(2, 1) is 2.5
JsNumber(n, h) == [t |-> "number", h |-> 2 * n + h]

NaN == [nan |-> TRUE, h |-> 0]
Num(h) == [nan |-> FALSE, h |-> h]

\* Number(v): no string of the inputs is numeric
ToNumber(v) == IF v.t = "number" THEN Num(v.h) ELSE NaN

\* truncation toward zero of a number counted in halves, as a whole number
Trunc(h) == IF h >= 0 THEN h \div 2 ELSE -((-h) \div 2)

\* parseInt(v, 10): the integer prefix of String(v)
ParseInt(v) == IF v.t = "number" THEN Num(2 * Trunc(v.h)) ELSE NaN

\* x || 1 on numbers: NaN and 0 are falsy
OrOne(x) == IF x.nan \/ x.h = 0 THEN 2 ELSE x.h

MathMax(a, b) == IF a >= b THEN a ELSE b
MathMin(a, b) == IF a <= b THEN a ELSE b

---------------------------------------------------------------------------
(* Strings *)

IsSpace(c) == c = " "

RECURSIVE TrimLeft(_)
TrimLeft(s) == IF s # <<>> /\ IsSpace(Head(s)) THEN TrimLeft(Tail(s)) ELSE s

RECURSIVE TrimRight(_)
TrimRight(s) ==
  IF s # <<>> /\ IsSpace(s[Len(s)]) THEN TrimRight(SubSeq(s, 1, Len(s) - 1)) ELSE s

Trim(s) == TrimRight(TrimLeft(s))

UpperChar(c) == CASE c = "m" -> "M" [] c = "l" -> "L" [] OTHER -> c

ToUpperCase(s) == [i \in 1..Len(s) |-> UpperChar(s[i])]

\* s.split("--"): left to right, without overlap; cur is the part being read
RECURSIVE SplitFrom(_, _, _)
SplitFrom(s, i, cur) ==
  IF i > Len(s) THEN <<cur>>
  ELSE IF i < Len(s) /\ s[i] = "-" /\ s[i + 1] = "-"
       THEN <<cur>> \o SplitFrom(s, i + 2, <<>>)
       ELSE SplitFrom(s, i + 1, Append(cur, s[i]))

Split(s) == SplitFrom(s, 1, <<>>)

\* parts.join("--")
RECURSIVE Join(_)
Join(parts) ==
  IF parts = <<>> THEN <<>>
  ELSE IF Len(parts) = 1 THEN parts[1]
  ELSE parts[1] \o <<"-", "-">> \o Join(Tail(parts))

\* String(v || "") of a client-supplied sku
SkuString(v) == IF v.t = "string" THEN v.s ELSE <<>>

normalizeSku(rawSku) == IF rawSku = <<>> THEN <<>> ELSE Trim(Split(rawSku)[1])

extractVariant(rawSku) ==
  LET parts == Split(rawSku)
  IN IF Len(parts) > 1 THEN ToUpperCase(Trim(Join(Tail(parts)))) ELSE <<>>

---------------------------------------------------------------------------
(* The catalog: products.json, read once at startup *)

SkuA == <<"A">>
SkuB == <<"B">>

\* SKU -> product attributes; a product may leave out its currency
Catalog ==
  (SkuA :> [name |-> <<"T", "e", "e">>, price |-> 7500, currency |-> <<"e", "u", "r">>])
  @@ (SkuB :> [name |-> <<"C", "a", "p">>, price |-> 7499])

\* Property names every JavaScript object inherits; "constructor" stands for
\* the whole name, one fragment without spaces or dashes
ProtoKeys == {<<"constructor">>}

Undefined == [undefined |-> TRUE]

\* what obj[key] of the parsed products.json yields: an own entry, an
\* inherited member (a function object, with a name and no price), or undefined
CatalogGet(key) ==
  IF key \in DOMAIN Catalog THEN Catalog[key]
  ELSE IF key \in ProtoKeys THEN [name |-> <<"Object">>]
  ELSE Undefined

IsUndefined(p) == "undefined" \in DOMAIN p

Has(p, f) == f \in DOMAIN p

\* !p.price is false: a price that is present and not 0
TruthyPrice(p) == Has(p, "price") /\ p.price # 0

Usd == <<"u", "s", "d">>

LowerChar(c) == CASE c = "E" -> "e" [] c = "U" -> "u" [] c = "R" -> "r" [] OTHER -> c

ToLowerCase(s) == [i \in 1..Len(s) |-> LowerChar(s[i])]

\* {...f, [k]: v}
Put(f, k, v) == [x \in DOMAIN f \cup {k} |-> IF x = k THEN v ELSE f[x]]

---------------------------------------------------------------------------
(* POST /create-checkout-session, src/server.js *)

FreeThreshold == 15000
StandardAmount == 1295
ExpressAmount == 2999

\* Math.max(1, Number(it.qty) || 1), in halves
ServerQty(qty) == MathMax(2, OrOne(ToNumber(qty)))

\* sum over the resolvable lines of price * qty, in halves
RECURSIVE computeSubtotalCents(_)
computeSubtotalCents(items) ==
  IF items = <<>> THEN 0
  ELSE LET it == Head(items)
           base == normalizeSku(SkuString(it.sku))
           qty == ServerQty(it.qty)
           p == CatalogGet(base)
           rest == computeSubtotalCents(Tail(items))
       IN IF IsUndefined(p) THEN rest
          ELSE (IF Has(p, "price") THEN p.price ELSE 0) * qty + rest

ShippingOption(name, amount, min, max) ==
  [display_name |-> name, amount |-> amount, minimum |-> min, maximum |-> max]

\* shipping options whose free tier starts above the threshold
buildShippingOptionsStrict(subtotalCents) ==
  (IF subtotalCents > 2 * FreeThreshold
   THEN <<ShippingOption("Free Shipping (Orders $150+)", 0, 2, 5)>>
   ELSE <<>>)
  \o <<ShippingOption("Standard (2-5 Days)", StandardAmount, 2, 5),
       ShippingOption("Express (1-2 Days)", ExpressAmount, 1, 2)>>

buildShippingOptions(subtotalCents) ==
  (IF subtotalCents >= 2 * FreeThreshold
   THEN <<ShippingOption("Free Shipping (Orders $150+)", 0, 2, 5)>>
   ELSE <<>>)
  \o <<ShippingOption("Standard (2-5 Days)", StandardAmount, 2, 5),
       ShippingOption("Express (1-2 Days)", ExpressAmount, 1, 2)>>

SizeKey(baseSku) == <<"size_">> \o baseSku

\* a unit amount that trusts a price the client sent
ClientUnitAmount(it, p) == IF Has(it.extra, "price") THEN it.extra.price ELSE p.price

\* the unit amount of a line: the catalog's price, whatever the client sent
ServerUnitAmount(it, p) == p.price

ServerLineItem(it, p, baseSku, variant) ==
  [quantity |-> ServerQty(it.qty),
   currency |-> IF Has(p, "currency") THEN p.currency ELSE Usd,
   unit_amount |-> ServerUnitAmount(it, p),
   name |-> p.name,
   sku |-> baseSku,
   variant |-> variant]

\* the size entry of a line: later lines overwrite an entry of the same key
ServerMetadata(metadata, baseSku, variant) ==
  IF variant # <<>> THEN Put(metadata, SizeKey(baseSku), variant) ELSE metadata

\* the for loop over the items: it returns at the first line that does not resolve
RECURSIVE ServerLoop(_, _, _, _)
ServerLoop(items, i, line_items, metadata) ==
  IF i > Len(items) THEN [ok |-> TRUE, line_items |-> line_items, metadata |-> metadata]
  ELSE LET it == items[i]
           rawSku == Trim(SkuString(it.sku))
           baseSku == normalizeSku(rawSku)
           variant == extractVariant(rawSku)
           p == CatalogGet(baseSku)
       IN IF IsUndefined(p) \/ ~TruthyPrice(p)
          THEN [ok |-> FALSE, error |-> baseSku]
          ELSE ServerLoop(items, i + 1,
                          Append(line_items, ServerLineItem(it, p, baseSku, variant)),
                          ServerMetadata(metadata, baseSku, variant))

SourceKey == <<"source">>

\* the argument of stripe.checkout.sessions.create
ServerSessionRequest(items, built) ==
  [line_items |-> built.line_items,
   shipping_options |-> buildShippingOptions(computeSubtotalCents(items)),
   metadata |-> [k \in {SourceKey} \cup DOMAIN built.metadata |->
                   IF k \in DOMAIN built.metadata THEN built.metadata[k]
                   ELSE <<"jhinton-site">>]]

---------------------------------------------------------------------------
(* POST /create-checkout-session, src/unnamed/part_000 *)

QtyCap == 99

\* Math.max(1, Math.min(99, parseInt(qty, 10) || 1)), in halves
Part000Qty(qty) == MathMax(2, MathMin(2 * QtyCap, OrOne(ParseInt(qty))))

\* one line item; the catalog is keyed by the whole trimmed sku, and only a
\* missing product throws
Part000LineItem(it, key, product) ==
  LET common == [quantity |-> Part000Qty(it.qty),
                 currency |-> ToLowerCase(env.CURRENCY),
                 name |-> product.name,
                 sku |-> key,
                 variant |-> <<>>]
  IN IF Has(product, "price")
     THEN Put(common, "unit_amount", product.price)
     ELSE common

RECURSIVE Part000Map(_, _, _)
Part000Map(items, i, line_items) ==
  IF i > Len(items) THEN [ok |-> TRUE, line_items |-> line_items]
  ELSE LET it == items[i]
           key == Trim(SkuString(it.sku))
           product == CatalogGet(key)
       IN IF IsUndefined(product)
          THEN [ok |-> FALSE, error |-> key]
          ELSE Part000Map(items, i + 1, Append(line_items, Part000LineItem(it, key, product)))

\* buildLineItems: throws on an empty cart or one that is no array
buildLineItems(items) ==
  IF ~items.isArray \/ items.list = <<>> THEN [ok |-> FALSE, error |-> <<>>]
  ELSE Part000Map(items.list, 1, <<>>)

Part000SessionRequest(built) ==
  [line_items |-> built.line_items,
   shipping_options |->
     IF env.SHIPPING_USD_CENTS > 0
     THEN <<ShippingOption("Standard Shipping", env.SHIPPING_USD_CENTS, 3, 7)>>
     ELSE <<>>,
   metadata |-> [k \in {SourceKey} |-> <<"jhinton-hostinger">>]]

---------------------------------------------------------------------------
(* Requests *)

None == [none |-> TRUE]

IsNone(x) == "none" \in DOMAIN x

\* sku values a client submits: plain, with a variant, padded, unknown,
\* an inherited property name
RawSkus ==
  {JsString(<<"A">>),
   JsString(<<"A", "-", "-", "m">>),
   JsString(<<"A", "-", "-", "l">>),
   JsString(<<" ", "B", " ">>),
   JsString(<<"Z">>),
   JsString(<<"constructor">>)}

\* qty values a client submits: missing, non-numeric, 0, -1, 2, 2.5, 100
Qtys ==
  {JsUndefined, JsString(<<"a", "b", "c">>), JsNumber(0, 0), JsNumber(-1, 0),
   JsNumber(2, 0), JsNumber(2, 1), JsNumber(QtyCap + 1, 0)}

\* fields a client may add to every line of its cart
ClientExtras == {[plain |-> TRUE], [price |-> 1, currency |-> <<"x", "x", "x">>]}

CartLines(extra) == [sku : RawSkus, qty : Qtys, extra : {extra}]

\* req.body.items: missing (no array), or an array of up to MaxItems lines
ItemsInputs ==
  {[isArray |-> FALSE, list |-> <<>>]}
  \cup {[isArray |-> TRUE, list |-> l] :
          l \in UNION {[1..n -> CartLines(x)] : n \in 0..MaxItems, x \in ClientExtras}}

\* Events the provider emits and signs
CompletedType == "checkout.session.completed"
ProviderEvents ==
  {[json |-> TRUE, type |-> CompletedType, data |-> TRUE],
   [json |-> TRUE, type |-> "payment_intent.succeeded", data |-> TRUE]}

\* Raw webhook bodies: provider events, JSON without a data object, bytes that
\* are no JSON
Bodies ==
  ProviderEvents
  \cup {[json |-> TRUE, type |-> CompletedType, data |-> FALSE],
        [json |-> FALSE, type |-> "", data |-> FALSE]}

Whsec == "whsec_live"

\* Stripe-Signature headers: none, one made with another key, or one the
\* provider made with the signing secret over one of its events
Signatures ==
  {[present |-> FALSE, key |-> "", over |-> None]}
  \cup {[present |-> TRUE, key |-> "whsec_other", over |-> b] : b \in Bodies}
  \cup {[present |-> TRUE, key |-> Whsec, over |-> b] : b \in ProviderEvents}

\* the session record the provider returns on retrieval
Sessions == [customerEmail : BOOLEAN]

---------------------------------------------------------------------------
(* Configuration: process.env and the loaded modules, fixed at startup *)

DefaultShippingCents == 1500

EnvBase ==
  [STRIPE_WEBHOOK_SECRET |-> Whsec, RESEND_API_KEY |-> TRUE, Resend |-> TRUE,
   INTERNAL_ORDER_EMAIL |-> TRUE, SHIPPING_USD_CENTS |-> DefaultShippingCents,
   CURRENCY |-> Usd, KLAVIYO_PRIVATE_KEY |-> TRUE, KLAVIYO_LIST_ID |-> TRUE]

\* configurations that differ in what the checkout handlers read
CheckoutEnvs ==
  {EnvBase,
   [EnvBase EXCEPT !.SHIPPING_USD_CENTS = 0, !.CURRENCY = <<"E", "U", "R">>]}

\* configurations that differ in what the webhook handlers read
WebhookEnvs ==
  {[EnvBase EXCEPT !.STRIPE_WEBHOOK_SECRET = w, !.RESEND_API_KEY = k,
                   !.Resend = r, !.INTERNAL_ORDER_EMAIL = i] :
     w \in {"", Whsec}, k \in BOOLEAN, r \in BOOLEAN, i \in BOOLEAN}

\* configurations that differ in what the subscribe handler reads
SubscribeEnvs ==
  {[EnvBase EXCEPT !.KLAVIYO_PRIVATE_KEY = k, !.KLAVIYO_LIST_ID = l] :
     k \in BOOLEAN, l \in BOOLEAN}

Impls == {"server", "part_000"}

Response(status, body) == [status |-> status, body |-> body]

Idle ==
  /\ pc = "idle"
  /\ req = None
  /\ event = None
  /\ verified = FALSE
  /\ createArg = None
  /\ retrieved = 0
  /\ session = None
  /\ sent = <<>>
  /\ res = None
  /\ routes = 0
  /\ handled = 0
  /\ fetched = 0

InitWith(envs) ==
  /\ impl \in Impls
  /\ env \in envs
  /\ Idle

Init == InitWith(CheckoutEnvs \cup WebhookEnvs \cup SubscribeEnvs)

---------------------------------------------------------------------------
(* POST /create-checkout-session: the handler up to its first await *)

\* src/server.js
ServerCheckout(items) ==
  LET list == IF items.isArray THEN items.list ELSE <<>>
      built == ServerLoop(list, 1, <<>>, <<>>)
  IN IF list = <<>> \/ ~built.ok
     THEN /\ res' = Response(400, "error")
          /\ pc' = "done"
          /\ UNCHANGED createArg
     ELSE /\ createArg' = ServerSessionRequest(list, built)
          /\ pc' = "create_await"
          /\ UNCHANGED res

\* src/unnamed/part_000
Part000Checkout(items) ==
  LET built == buildLineItems(items)
  IN IF ~built.ok
     THEN /\ res' = Response(400, "error")
          /\ pc' = "done"
          /\ UNCHANGED createArg
     ELSE /\ createArg' = Part000SessionRequest(built)
          /\ pc' = "create_await"
          /\ UNCHANGED res

CreateCheckoutSession ==
  /\ pc = "idle"
  /\ \E items \in ItemsInputs :
       /\ req' = [kind |-> "checkout", items |-> items]
       /\ IF impl = "server" THEN ServerCheckout(items) ELSE Part000Checkout(items)
  /\ UNCHANGED <<impl, env, routes, handled, fetched, event, verified, retrieved, session, sent>>

\* the provider refuses a line without a unit amount
ProviderAccepts(arg) == \A i \in 1..Len(arg.line_items) : Has(arg.line_items[i], "unit_amount")

StripeCreateReturns ==
  /\ pc = "create_await"
  /\ ProviderAccepts(createArg)
  /\ res' = Response(200, "url")
  /\ pc' = "done"
  /\ UNCHANGED <<impl, env, routes, handled, fetched, req, event, verified, createArg, retrieved, session, sent>>

\* the catch of each variant
CheckoutErrorStatus == IF impl = "server" THEN 500 ELSE 400

StripeCreateThrows ==
  /\ pc = "create_await"
  /\ res' = Response(CheckoutErrorStatus, "error")
  /\ pc' = "done"
  /\ UNCHANGED <<impl, env, routes, handled, fetched, req, event, verified, createArg, retrieved, session, sent>>

\* the response is written and the request is over
Finish ==
  /\ pc = "done"
  /\ pc' = "idle"
  /\ req' = None
  /\ event' = None
  /\ verified' = FALSE
  /\ createArg' = None
  /\ retrieved' = 0
  /\ session' = None
  /\ sent' = <<>>
  /\ res' = None
  /\ handled' = 0
  /\ fetched' = 0
  /\ UNCHANGED <<impl, env, routes>>

---------------------------------------------------------------------------
(* POST /webhook *)

\* a verification that checks the key and not the bytes that were signed
ConstructEventAnyBody(body, sig, secret) ==
  /\ sig.present
  /\ sig.key = secret

\* stripe.webhooks.constructEvent does not throw: the header is present and is
\* the signature of exactly these raw bytes under the secret
ConstructEventOk(body, sig, secret) ==
  /\ sig.present
  /\ sig.key = secret
  /\ sig.over = body

Received == Response(200, "received")

\* a dispatch that takes every event for a completed session
IsAnyEvent(ev) == TRUE

\* event.type === "checkout.session.completed"
IsCompleted(ev) == ev.type = CompletedType

\* a handling block whose error reaches the framework's error handler
HandlingErrorRethrown == Response(500, "Internal Server Error")

\* what the handler answers after its handling block threw: the error is
\* logged and swallowed
HandlingErrorResponse == Received

\* src/server.js: verification, then the handling block up to its first await
ServerWebhook(body, sig) ==
  LET whsec == env.STRIPE_WEBHOOK_SECRET
      threw == IF whsec # "" THEN ~ConstructEventOk(body, sig, whsec) ELSE ~body.json
  IN IF threw
     THEN /\ res' = Response(400, "Webhook Error")
          /\ pc' = "done"
          /\ UNCHANGED <<event, verified, retrieved>>
     ELSE /\ event' = body
          /\ verified' = (whsec # "")
          /\ IF IsCompleted(body)
             THEN IF body.data
                  THEN /\ retrieved' = retrieved + 1
                       /\ pc' = "retrieve_await"
                       /\ UNCHANGED res
                  ELSE /\ res' = HandlingErrorResponse
                       /\ pc' = "done"
                       /\ UNCHANGED retrieved
             ELSE /\ res' = Received
                  /\ pc' = "done"
                  /\ UNCHANGED retrieved

\* src/unnamed/part_000: the whole handler; it only logs a completed session
Part000Webhook(body, sig) ==
  LET secret == env.STRIPE_WEBHOOK_SECRET
  IN /\ pc' = "done"
     /\ UNCHANGED retrieved
     /\ IF secret = ""
        THEN /\ res' = Response(500, "Missing STRIPE_WEBHOOK_SECRET")
             /\ UNCHANGED <<event, verified>>
        ELSE IF ~ConstructEventOk(body, sig, secret)
        THEN /\ res' = Response(400, "Webhook Error")
             /\ UNCHANGED <<event, verified>>
        ELSE /\ event' = body
             /\ verified' = TRUE
             /\ res' = IF IsCompleted(body) /\ ~body.data
                       THEN Response(500, "Internal Server Error")
                       ELSE Received

Webhook ==
  /\ pc = "idle"
  /\ \E body \in Bodies, sig \in Signatures :
       /\ req' = [kind |-> "webhook", body |-> body, sig |-> sig]
       /\ IF impl = "server" THEN ServerWebhook(body, sig) ELSE Part000Webhook(body, sig)
  /\ UNCHANGED <<impl, env, routes, handled, fetched, createArg, session, sent>>

\* sendOrderEmails returns without sending: Resend is not configured
NotConfigured == ~env.Resend \/ ~env.RESEND_API_KEY

\* sendOrderEmails from its start to its first await, or to its return
SendOrderEmailsStart(full) ==
  IF NotConfigured
  THEN /\ res' = Received
       /\ pc' = "done"
       /\ UNCHANGED sent
  ELSE IF full.customerEmail
  THEN /\ sent' = Append(sent, "customer")
       /\ pc' = "send_customer_await"
       /\ UNCHANGED res
  ELSE IF env.INTERNAL_ORDER_EMAIL
  THEN /\ sent' = Append(sent, "internal")
       /\ pc' = "send_internal_await"
       /\ UNCHANGED res
  ELSE /\ res' = Received
       /\ pc' = "done"
       /\ UNCHANGED sent

\* stripe.checkout.sessions.retrieve resolves
RetrieveReturns ==
  /\ pc = "retrieve_await"
  /\ \E full \in Sessions :
       /\ session' = full
       /\ SendOrderEmailsStart(full)
  /\ UNCHANGED <<impl, env, routes, handled, fetched, req, event, verified, createArg, retrieved>>

\* stripe.checkout.sessions.retrieve rejects: the handling block's catch
RetrieveThrows ==
  /\ pc = "retrieve_await"
  /\ res' = HandlingErrorResponse
  /\ pc' = "done"
  /\ UNCHANGED <<impl, env, routes, handled, fetched, req, event, verified, createArg, retrieved, session, sent>>

\* the customer message went out: on to the internal copy
SendCustomerReturns ==
  /\ pc = "send_customer_await"
  /\ IF env.INTERNAL_ORDER_EMAIL
     THEN /\ sent' = Append(sent, "internal")
          /\ pc' = "send_internal_await"
          /\ UNCHANGED res
     ELSE /\ res' = Received
          /\ pc' = "done"
          /\ UNCHANGED sent
  /\ UNCHANGED <<impl, env, routes, handled, fetched, req, event, verified, createArg, retrieved, session>>

\* resend.emails.send rejects for the customer message: sendOrderEmails
\* throws there, into the handling block's catch
SendCustomerThrows ==
  /\ pc = "send_customer_await"
  /\ res' = HandlingErrorResponse
  /\ pc' = "done"
  /\ UNCHANGED <<impl, env, routes, handled, fetched, req, event, verified, createArg, retrieved, session, sent>>

SendInternalReturns ==
  /\ pc = "send_internal_await"
  /\ res' = Received
  /\ pc' = "done"
  /\ UNCHANGED <<impl, env, routes, handled, fetched, req, event, verified, createArg, retrieved, session, sent>>

SendInternalThrows ==
  /\ pc = "send_internal_await"
  /\ res' = HandlingErrorResponse
  /\ pc' = "done"
  /\ UNCHANGED <<impl, env, routes, handled, fetched, req, event, verified, createArg, retrieved, session, sent>>

---------------------------------------------------------------------------
(* GET /health and POST /api/klaviyo/subscribe *)

\* subscribe bodies: each field present (truthy) or absent
SubscribeBodies == [email : BOOLEAN, consent : BOOLEAN, phone : BOOLEAN, marketing_texts : BOOLEAN]

OkTrue == "ok:true"
OkFalse == "ok:false"

\* GET /health answers {ok: true}.  In src/server.js the handler's body runs on
\* to the app.post of the subscribe route, which closes only after it: every
\* health call appends one more subscribe layer to the router.
Health ==
  /\ pc = "idle"
  /\ impl = "server" => routes < MaxHealth
  /\ req' = [kind |-> "health"]
  /\ res' = Response(200, OkTrue)
  /\ routes' = IF impl = "server" THEN routes + 1 ELSE routes
  /\ pc' = "done"
  /\ UNCHANGED <<impl, env, handled, fetched, event, verified, createArg, retrieved, session, sent>>

\* how many of n registered subscribe layers one request runs: the handler
\* answers and never calls next(), so the router stops at the first
SubscribeInvocations(n) == IF n = 0 THEN 0 ELSE 1

\* the subscribe handler up to its first await
SubscribeHandler(body) ==
  IF ~body.email \/ ~body.consent
  THEN /\ res' = Response(400, OkFalse)
       /\ pc' = "done"
       /\ UNCHANGED fetched
  ELSE IF ~env.KLAVIYO_PRIVATE_KEY \/ ~env.KLAVIYO_LIST_ID
  THEN /\ res' = Response(500, OkFalse)
       /\ pc' = "done"
       /\ UNCHANGED fetched
  ELSE /\ fetched' = fetched + 1
       /\ pc' = "klaviyo_await"
       /\ UNCHANGED res

\* POST /api/klaviyo/subscribe: routed to the registered layers; with none
\* (src/unnamed/part_000 has no such route) the framework answers 404
Subscribe ==
  /\ pc = "idle"
  /\ \E body \in SubscribeBodies :
       /\ req' = [kind |-> "subscribe", body |-> body]
       /\ handled' = SubscribeInvocations(routes)
       /\ IF SubscribeInvocations(routes) = 0
          THEN /\ res' = Response(404, "Cannot POST")
               /\ pc' = "done"
               /\ UNCHANGED fetched
          ELSE SubscribeHandler(body)
  /\ UNCHANGED <<impl, env, routes, event, verified, createArg, retrieved, session, sent>>

\* the marketing provider answered: resp.ok or not
KlaviyoReturns ==
  /\ pc = "klaviyo_await"
  /\ \E ok \in BOOLEAN :
       res' = IF ok THEN Response(200, OkTrue) ELSE Response(400, OkFalse)
  /\ pc' = "done"
  /\ UNCHANGED <<impl, env, routes, handled, fetched, req, event, verified, createArg, retrieved, session, sent>>

\* fetch rejected: the handler's catch
KlaviyoThrows ==
  /\ pc = "klaviyo_await"
  /\ res' = Response(500, OkFalse)
  /\ pc' = "done"
  /\ UNCHANGED <<impl, env, routes, handled, fetched, req, event, verified, createArg, retrieved, session, sent>>

---------------------------------------------------------------------------
(* Specifications *)

NextCheckout ==
  \/ CreateCheckoutSession
  \/ StripeCreateReturns
  \/ StripeCreateThrows
  \/ Finish

NextWebhook ==
  \/ Webhook
  \/ RetrieveReturns
  \/ RetrieveThrows
  \/ SendCustomerReturns
  \/ SendCustomerThrows
  \/ SendInternalReturns
  \/ SendInternalThrows
  \/ Finish

NextSubscribe ==
  \/ Health
  \/ Subscribe
  \/ KlaviyoReturns
  \/ KlaviyoThrows
  \/ Finish

Next == NextCheckout \/ NextWebhook \/ NextSubscribe

\* the whole server
Spec == Init /\ [][Next]_vars

\* the checkout endpoint, over the configurations it reads
SpecCheckout == InitWith(CheckoutEnvs) /\ [][NextCheckout]_vars

\* the webhook endpoint, over the configurations it reads
SpecWebhook == InitWith(WebhookEnvs) /\ [][NextWebhook]_vars

\* the health and subscribe endpoints, over the configurations they read
SpecSubscribe == InitWith(SubscribeEnvs) /\ [][NextSubscribe]_vars

---------------------------------------------------------------------------
(* Properties *)

IsCheckout == ~IsNone(req) /\ req.kind = "checkout"
IsWebhook == ~IsNone(req) /\ req.kind = "webhook"
Answered == pc = "done" /\ ~IsNone(res)
Is4xx(r) == r.status >= 400 /\ r.status <= 499

\* the base SKU and the variant of a submitted line
LineBase(it) == normalizeSku(Trim(SkuString(it.sku)))
LineVariant(it) == extractVariant(Trim(SkuString(it.sku)))

\* the currency the server side fixes for a product
ServerSideCurrency(base) ==
  IF impl = "server"
  THEN (IF Has(Catalog[base], "currency") THEN Catalog[base].currency ELSE Usd)
  ELSE ToLowerCase(env.CURRENCY)

\* C1: in every accepted cart each line item sent to the provider carries the
\* catalog price of its line's base SKU and a currency fixed on the server
\* side, whatever price or currency the client put on the line.
C1_PriceFromCatalog ==
  (IsCheckout /\ Answered /\ res.status = 200) =>
    LET list == req.items.list
        sentLines == createArg.line_items
    IN /\ Len(sentLines) = Len(list)
       /\ \A i \in 1..Len(list) :
            /\ LineBase(list[i]) \in DOMAIN Catalog
            /\ Has(sentLines[i], "unit_amount")
            /\ sentLines[i].unit_amount = Catalog[LineBase(list[i])].price
            /\ sentLines[i].currency = ServerSideCurrency(LineBase(list[i]))

\* C1 witness: a session was created for a cart whose lines carry a client price
C1_Witness ==
  /\ IsCheckout /\ Answered /\ res.status = 200
  /\ Len(req.items.list) = 2
  /\ \A i \in 1..2 : Has(req.items.list[i].extra, "price")

\* C2: with no signing secret configured, a webhook request is refused and no
\* event is processed: no event accepted, no retrieval, no email.
C2_FailsClosed ==
  (IsWebhook /\ env.STRIPE_WEBHOOK_SECRET = "") =>
    /\ IsNone(event)
    /\ retrieved = 0
    /\ sent = <<>>
    /\ Answered
    /\ res.status >= 400

\* the header is the signature of exactly the request's bytes under the secret
SignatureVerifies ==
  /\ req.sig.present
  /\ req.sig.key = env.STRIPE_WEBHOOK_SECRET
  /\ req.sig.over = req.body

\* C3: with a secret configured, a webhook request whose signature does not
\* verify against its raw body is answered 4xx at once; no event is accepted,
\* nothing is retrieved and no email is sent.
C3_UnverifiedNoSideEffects ==
  (IsWebhook /\ env.STRIPE_WEBHOOK_SECRET # "" /\ ~SignatureVerifies) =>
    /\ Answered
    /\ Is4xx(res)
    /\ IsNone(event)
    /\ retrieved = 0
    /\ sent = <<>>

\* C3 witness: a completed-session body under a provider signature made for
\* another event was refused
C3_Witness ==
  /\ IsWebhook /\ Answered
  /\ impl = "server"
  /\ req.body.type = CompletedType /\ req.body.data
  /\ req.sig.key = env.STRIPE_WEBHOOK_SECRET
  /\ req.sig.over # req.body
  /\ res.status = 400

\* C4: a verified webhook event is never answered with anything but
\* {received: true}, also when the retrieval or a send threw.
C4_VerifiedAlwaysAcknowledged ==
  (IsWebhook /\ verified) =>
    /\ IsNone(res) \/ res = Response(200, "received")
    /\ pc = "done" => res = Response(200, "received")

\* C4 witness: the retrieval threw (a call was made, no session came back)
\* and the request was acknowledged
C4_Witness ==
  /\ IsWebhook /\ verified /\ Answered
  /\ retrieved = 1
  /\ IsNone(session)
  /\ res = Response(200, "received")

\* C5: a verified event of another type than checkout.session.completed is
\* acknowledged at once, with no retrieval and no email; so retrieval and
\* emails happen for completed sessions only.
C5_OnlyCompletedTriggers ==
  (IsWebhook /\ verified /\ event.type # "checkout.session.completed") =>
    /\ Answered
    /\ res = Response(200, "received")
    /\ retrieved = 0
    /\ IsNone(session)
    /\ sent = <<>>

\* C5 witness: a verified event of another type was acknowledged
C5_Witness ==
  /\ IsWebhook /\ verified /\ Answered
  /\ event.type = "payment_intent.succeeded"
  /\ res = Response(200, "received")

\* the cart is empty, no list, or holds a line whose base SKU the catalog lacks
BadCart(items) ==
  \/ ~items.isArray
  \/ items.list = <<>>
  \/ \E i \in 1..Len(items.list) : LineBase(items.list[i]) \notin DOMAIN Catalog

\* C6: a cart that is empty, no list, or holds a line whose base SKU has no
\* catalog entry is answered 4xx and the session-creation call is never made.
C6_AllOrNothing ==
  (IsCheckout /\ BadCart(req.items)) =>
    /\ IsNone(createArg)
    /\ Answered
    /\ Is4xx(res)

\* a number counted in halves is whole
IsInteger(h) == h % 2 = 0

\* the quantity the spec gives a client qty, in halves: 1 for a missing or
\* invalid value, else its integer part clamped to [1, 99]
ClampedQty(qty) ==
  IF qty.t # "number" THEN 2
  ELSE LET n == Trunc(qty.h)
       IN IF n = 0 THEN 2 ELSE 2 * MathMax(1, MathMin(99, n))

\* C7: every line item of a session request has an integer quantity in
\* [1, 99], the clamped value of the client's qty.
C7_QuantityClamped ==
  (IsCheckout /\ ~IsNone(createArg)) =>
    \A i \in 1..Len(createArg.line_items) :
      LET q == createArg.line_items[i].quantity
      IN /\ IsInteger(q)
         /\ q >= 2 /\ q <= 2 * 99
         /\ q = ClampedQty(req.items.list[i].qty)

\* the subtotal of a session request, in halves: catalog price times quantity
RECURSIVE RequestSubtotal(_, _)
RequestSubtotal(list, sentLines) ==
  IF list = <<>> THEN 0
  ELSE Catalog[LineBase(Head(list))].price * Head(sentLines).quantity
       + RequestSubtotal(Tail(list), Tail(sentLines))

OptionNames(opts) == [i \in 1..Len(opts) |-> opts[i].display_name]

TieredNames(subtotal) ==
  IF subtotal < 2 * 15000
  THEN <<"Standard (2-5 Days)", "Express (1-2 Days)">>
  ELSE <<"Free Shipping (Orders $150+)", "Standard (2-5 Days)", "Express (1-2 Days)">>

HasValidLines ==
  /\ IsCheckout /\ ~IsNone(createArg)
  /\ \A i \in 1..Len(req.items.list) : LineBase(req.items.list[i]) \in DOMAIN Catalog

\* C8 as claimed: the shipping options of every session request are Standard,
\* Express below a subtotal of 15000 and Free, Standard, Express from 15000 on.
C8_ShippingBySubtotal ==
  HasValidLines =>
    OptionNames(createArg.shipping_options)
      = TieredNames(RequestSubtotal(req.items.list, createArg.line_items))

\* C8 as amended: src/server.js attaches the options by subtotal (Standard,
\* Express below 15000; Free, Standard, Express from 15000 on); the flat-rate
\* variant part_000 attaches one Standard Shipping option of SHIPPING_USD_CENTS
\* when that is positive and none otherwise, whatever the subtotal.
C8_ShippingByVariant ==
  HasValidLines =>
    IF impl = "server"
    THEN OptionNames(createArg.shipping_options)
           = TieredNames(RequestSubtotal(req.items.list, createArg.line_items))
    ELSE createArg.shipping_options
           = IF env.SHIPPING_USD_CENTS > 0
             THEN <<[display_name |-> "Standard Shipping",
                     amount |-> env.SHIPPING_USD_CENTS, minimum |-> 3, maximum |-> 7]>>
             ELSE <<>>

\* C8 witness: src/server.js built a request whose subtotal is exactly 15000
\* and that offers free shipping first
C8_Witness ==
  /\ HasValidLines
  /\ impl = "server"
  /\ RequestSubtotal(req.items.list, createArg.line_items) = 2 * 15000
  /\ Len(createArg.shipping_options) = 3
  /\ createArg.shipping_options[1].amount = 0

\* C9: once sendOrderEmails has run for the session of a verified event: without a usable
\* credential nothing is sent; with one, the customer message is sent exactly
\* when the session has a customer address, the internal copy exactly when an
\* internal address is configured, and at most two messages go out.
C9_IndependentSends ==
  (IsWebhook /\ verified /\ Answered /\ ~IsNone(session)) =>
    IF env.Resend /\ env.RESEND_API_KEY
    THEN /\ (\E i \in 1..Len(sent) : sent[i] = "customer") <=> session.customerEmail
         /\ (\E i \in 1..Len(sent) : sent[i] = "internal") <=> env.INTERNAL_ORDER_EMAIL
         /\ Len(sent) <= 2
    ELSE sent = <<>> /\ res = Response(200, "received")

\* C10: the metadata of a session request holds the source tag and, for each
\* line with a variant, an entry from which that line's variant is read back;
\* lines without a variant add none.
C10_VariantsRecoverable ==
  HasValidLines =>
    LET list == req.items.list
        md == createArg.metadata
    IN /\ <<"source">> \in DOMAIN md
       /\ \A i \in 1..Len(list) :
            LineVariant(list[i]) # <<>> =>
              /\ <<"size_">> \o LineBase(list[i]) \in DOMAIN md
              /\ md[<<"size_">> \o LineBase(list[i])] = LineVariant(list[i])
       /\ DOMAIN md = {<<"source">>}
            \cup {<<"size_">> \o LineBase(list[i]) :
                    i \in {j \in 1..Len(list) : LineVariant(list[j]) # <<>>}}

IsSubscribe == ~IsNone(req) /\ req.kind = "subscribe"

\* C11: whatever requests came before (health calls or none), a subscribe
\* request to src/server.js is run by the subscribe handler exactly once and
\* is answered {ok:true} or {ok:false}; without the consent flag the answer is
\* a 4xx {ok:false} and the marketing provider is not called.
C11_SubscribeHandledOnce ==
  (IsSubscribe /\ impl = "server") =>
    /\ handled = 1
    /\ Answered => res.body \in {"ok:true", "ok:false"}
    /\ ~req.body.consent =>
         /\ Answered
         /\ Is4xx(res)
         /\ res.body = "ok:false"
         /\ fetched = 0

====
